---------------------------- MODULE Spec2Model ----------------------------
(***************************************************************************)
(* A model of the plush image collector: the query planner and the pooled  *)
(* download run of src/get_images.py, the worker partitioning and the      *)
(* crawl workers of src/run_bing_scraper.py, the URL extraction of the     *)
(* bing_images spider and the admission of the AnimalImagesPipeline.       *)
(*                                                                         *)
(* A string that the code builds from words is a sequence of words: the    *)
(* f-string "{animal} {plush}" is the concatenation of the two word        *)
(* sequences.  Every component has its own specification over its own      *)
(* variables; the variables of the other components stay at their idle     *)
(* value.                                                                  *)
(***************************************************************************)
EXTENDS Integers, Sequences, FiniteSets, TLC

VARIABLES
  \* _partition_list called on its own
  pl_items, pl_n, pl_chunks, pl_pc,
  \* the planning part of get_images: make_queries and the per-query budget
  mq_animals, mq_plush, mq_total, mq_queries, mq_budget, mq_i, mq_pc,
  \* BingImagesSpider._extract_image_urls on one response
  ex_page, ex_urls, ex_pc,
  \* AnimalImagesPipeline.get_media_requests on one item
  ad_max, ad_dir, ad_urls, ad_requests, ad_pc,
  \* worker-process crawl mode: run_bing_scraper.main, its pool of crawl
  \* workers, and the image store on disk
  cr_arg, cr_max, cr_pages, cr_start, cr_tasks, cr_main,
  cr_status, cr_pending, cr_inflight, cr_fp, cr_files,
  \* pooled-download mode: get_images, its search loop, its thread pool of
  \* _download_worker tasks, and the images folder
  po_animals, po_blocked, po_max, po_search, po_main, po_ai, po_qi, po_images, po_task,
  po_attempts, po_files, po_results, po_count

plVars == <<pl_items, pl_n, pl_chunks, pl_pc>>

mqVars == <<mq_animals, mq_plush, mq_total, mq_queries, mq_budget, mq_i, mq_pc>>

exVars == <<ex_page, ex_urls, ex_pc>>

adVars == <<ad_max, ad_dir, ad_urls, ad_requests, ad_pc>>

crVars == <<cr_arg, cr_max, cr_pages, cr_start, cr_tasks, cr_main,
            cr_status, cr_pending, cr_inflight, cr_fp, cr_files>>

poVars == <<po_animals, po_blocked, po_max, po_search, po_main, po_ai, po_qi, po_images, po_task,
            po_attempts, po_files, po_results, po_count>>

vars == <<plVars, mqVars, exVars, adVars, crVars, poVars>>

---------------------------------------------------------------------------
(* Generic helpers *)

Range(s) == {s[i] : i \in 1..Len(s)}

Min(a, b) == IF a < b THEN a ELSE b

Max(a, b) == IF a > b THEN a ELSE b

\* The concatenation of the sequences of s
RECURSIVE Flatten(_)
Flatten(s) == IF s = <<>> THEN <<>> ELSE s[1] \o Flatten(Tail(s))

\* The injective sequences over S of length at most n
InjSeqs(S, n) ==
  UNION {{s \in [1..k -> S] : \A i, j \in 1..k : i # j => s[i] # s[j]} : k \in 0..n}

---------------------------------------------------------------------------
(* Static configuration *)

\* run_bing_scraper.ANIMALS_LIST
ANIMALS_LIST ==
  <<<<"cat">>, <<"dog">>, <<"bear">>, <<"fox">>, <<"rabbit">>, <<"snake">>,
    <<"tiger">>, <<"lion">>, <<"elephant">>, <<"panda">>, <<"koala">>,
    <<"whale">>, <<"dolphin">>, <<"shark">>, <<"octopus">>, <<"squid">>,
    <<"crab">>, <<"shrimp">>, <<"sea", "turtle">>>>

\* get_images.PLUSH_LIST (the same list in run_bing_scraper)
PLUSH_LIST ==
  <<<<"stuffed", "animal">>, <<"plushie">>, <<"plush", "toy">>,
    <<"stuffed", "toy">>, <<"plush">>>>

\* How many of the animals a partition input draws from
MaxItems == 4

\* The largest chunk count handed to _partition_list (the smallest is -1)
MaxN == 5

---------------------------------------------------------------------------
(* run_bing_scraper._partition_list *)

RECURSIVE RoundRobinLoop(_, _, _, _)
\* for i, x in enumerate(items): chunks[i % n].append(x)   (i is 1-based here)
RoundRobinLoop(items, n, i, chunks) ==
  IF i > Len(items) THEN chunks
  ELSE RoundRobinLoop(items, n, i + 1,
         [chunks EXCEPT ![((i - 1) % n) + 1] = Append(@, items[i])])

\* A slip: contiguous blocks of size ceil(len / n) instead of round-robin
RoundRobin_Contiguous(items, n) ==
  LET size == (Len(items) + n - 1) \div n
  IN  [j \in 1..n |->
         SubSeq(items, (j - 1) * size + 1, Min(j * size, Len(items)))]

\* chunks = [[] for _ in range(n)], then the round-robin loop
RoundRobin(items, n) ==
  RoundRobinLoop(items, n, 1, [j \in 1..n |-> <<>>])

\* A slip: n <= 0 returns [items] even when items is empty
partition_list_NoEmptyCheck(items, n) ==
  IF n <= 0 THEN <<items>>
  ELSE IF n >= Len(items) THEN [i \in 1..Len(items) |-> <<items[i]>>]
  ELSE RoundRobin(items, n)

partition_list(items, n) ==
  IF n <= 0 THEN (IF items # <<>> THEN <<items>> ELSE <<>>)
  ELSE IF n >= Len(items) THEN [i \in 1..Len(items) |-> <<items[i]>>]
  ELSE RoundRobin(items, n)

PoIdle ==
  /\ po_animals = <<>>
  /\ po_blocked = {}
  /\ po_max = 0
  /\ po_search = <<>>
  /\ po_main = "idle"
  /\ po_ai = 0
  /\ po_qi = 0
  /\ po_images = <<>>
  /\ po_task = <<>>
  /\ po_attempts = <<>>
  /\ po_files = <<>>
  /\ po_results = <<>>
  /\ po_count = 0

CrIdle ==
  /\ cr_arg = 0
  /\ cr_max = 0
  /\ cr_pages = <<>>
  /\ cr_start = <<>>
  /\ cr_tasks = <<>>
  /\ cr_main = "idle"
  /\ cr_status = <<>>
  /\ cr_pending = <<>>
  /\ cr_inflight = <<>>
  /\ cr_fp = <<>>
  /\ cr_files = <<>>

AdIdle ==
  /\ ad_max = 0
  /\ ad_dir = {}
  /\ ad_urls = <<>>
  /\ ad_requests = <<>>
  /\ ad_pc = "idle"

ExIdle ==
  /\ ex_page = <<>>
  /\ ex_urls = <<>>
  /\ ex_pc = "idle"

MqIdle ==
  /\ mq_animals = <<>>
  /\ mq_plush = <<>>
  /\ mq_total = 0
  /\ mq_queries = <<>>
  /\ mq_budget = <<>>
  /\ mq_i = 0
  /\ mq_pc = "idle"

PlIdle ==
  /\ pl_items = <<>>
  /\ pl_n = 0
  /\ pl_chunks = <<>>
  /\ pl_pc = "idle"

\* Every component but g is idle
OthersIdle(g) ==
  /\ IF g = "pl" THEN TRUE ELSE PlIdle
  /\ IF g = "mq" THEN TRUE ELSE MqIdle
  /\ IF g = "ex" THEN TRUE ELSE ExIdle
  /\ IF g = "ad" THEN TRUE ELSE AdIdle
  /\ IF g = "cr" THEN TRUE ELSE CrIdle
  /\ IF g = "po" THEN TRUE ELSE PoIdle

\* A step of component g leaves the other components alone
OthersUnchanged(g) ==
  /\ IF g = "pl" THEN TRUE ELSE UNCHANGED plVars
  /\ IF g = "mq" THEN TRUE ELSE UNCHANGED mqVars
  /\ IF g = "ex" THEN TRUE ELSE UNCHANGED exVars
  /\ IF g = "ad" THEN TRUE ELSE UNCHANGED adVars
  /\ IF g = "cr" THEN TRUE ELSE UNCHANGED crVars
  /\ IF g = "po" THEN TRUE ELSE UNCHANGED poVars

InitPartition ==
  /\ pl_items \in InjSeqs(Range(SubSeq(ANIMALS_LIST, 1, MaxItems)), MaxItems)
  /\ pl_n \in -1..MaxN
  /\ pl_chunks = <<>>
  /\ pl_pc = "call"
  /\ OthersIdle("pl")

CallPartition ==
  /\ pl_pc = "call"
  /\ pl_chunks' = partition_list(pl_items, pl_n)
  /\ pl_pc' = "done"
  /\ UNCHANGED <<pl_items, pl_n>>
  /\ OthersUnchanged("pl")

NextPartition == CallPartition

SpecPartition == InitPartition /\ [][NextPartition]_vars

---------------------------------------------------------------------------
(* Claims about _partition_list *)

\* The indices of items, in order, that round-robin sends to group j of n
RECURSIVE PickEvery(_, _, _, _)
PickEvery(items, n, j, i) ==
  IF i > Len(items) THEN <<>>
  ELSE IF (i - 1) % n = j - 1
       THEN <<items[i]>> \o PickEvery(items, n, j, i + 1)
       ELSE PickEvery(items, n, j, i + 1)

\* C7: for 0 < n < len(items), _partition_list returns exactly n non-empty
\* groups, pairwise disjoint, whose union is the input, whose sizes differ
\* by at most 1, and group j holds, in input order, the items whose index
\* is j modulo n.
C7_PartitionBalanced ==
  (pl_pc = "done" /\ 0 < pl_n /\ pl_n < Len(pl_items)) =>
    /\ Len(pl_chunks) = pl_n
    /\ \A j \in 1..pl_n : pl_chunks[j] # <<>>
    /\ \A j, k \in 1..pl_n :
         j # k => Range(pl_chunks[j]) \cap Range(pl_chunks[k]) = {}
    /\ UNION {Range(pl_chunks[j]) : j \in 1..pl_n} = Range(pl_items)
    /\ \A j, k \in 1..pl_n :
         Len(pl_chunks[j]) - Len(pl_chunks[k]) \in {-1, 0, 1}
    /\ \A j \in 1..pl_n : pl_chunks[j] = PickEvery(pl_items, pl_n, j, 1)

C7_Witness ==
  /\ pl_pc = "done"
  /\ pl_n = 3
  /\ Len(pl_items) = 4
  /\ Len(pl_chunks[1]) = 2

\* C8: for n <= 0 _partition_list returns one group equal to the input, or
\* the empty list when the input is empty; for n >= len(items) it returns
\* len(items) singleton groups in input order.
C8_PartitionEdges ==
  pl_pc = "done" =>
    /\ (pl_n <= 0 /\ pl_items # <<>>) => pl_chunks = <<pl_items>>
    /\ (pl_n <= 0 /\ pl_items = <<>>) => pl_chunks = <<>>
    /\ pl_n >= Len(pl_items) =>
         /\ Len(pl_chunks) = Len(pl_items)
         /\ \A i \in 1..Len(pl_items) : pl_chunks[i] = <<pl_items[i]>>

C8_Witness ==
  /\ pl_pc = "done"
  /\ pl_n = -1
  /\ Len(pl_items) = 3
  /\ pl_chunks = <<pl_items>>

---------------------------------------------------------------------------
(* get_images.make_queries (the same function in run_bing_scraper) and the *)
(* budget division at the head of get_images' search loop                  *)

\* The animals and the synonym terms a plan draws its lists from
PlanAnimals == {<<"cat">>, <<"dog">>, <<"sea", "turtle">>}

PlanPlush == {<<"plush">>, <<"plush", "toy">>, <<"stuffed", "animal">>}

\* The longest animal list and the longest synonym list of a plan
MaxPlanAnimals == 2

MaxPlanPlush == 2

\* The largest MAX_RESULTS of a plan
MaxTotal == 5

RECURSIVE QueriesFor(_, _, _)
\* for plush in PLUSH_LIST: append f"{animal} {plush}", then f"{plush} {animal}"
QueriesFor(animal, plush, i) ==
  IF i > Len(plush) THEN <<>>
  ELSE <<animal \o plush[i], plush[i] \o animal>> \o QueriesFor(animal, plush, i + 1)

\* A slip: only the "{animal} {plush}" order is emitted
make_queries_OneOrder(animals, plush) ==
  [a \in Range(animals) |-> [i \in 1..Len(plush) |-> a \o plush[i]]]

\* make_queries over the lists the module names ANIMALS_LIST and PLUSH_LIST
make_queries(animals, plush) ==
  [a \in Range(animals) |-> QueriesFor(a, plush, 1)]

\* num_results = MAX_RESULTS // len(queries), for len(queries) > 0
num_results(total, queries) == total \div Len(queries)

InitPlan ==
  /\ mq_animals \in InjSeqs(PlanAnimals, MaxPlanAnimals)
  /\ mq_plush \in InjSeqs(PlanPlush, MaxPlanPlush)
  /\ mq_total \in 0..MaxTotal
  /\ mq_queries = <<>>
  /\ mq_budget = <<>>
  /\ mq_i = 0
  /\ mq_pc = "make_queries"
  /\ OthersIdle("mq")

\* queries = make_queries()
MakeQueries ==
  /\ mq_pc = "make_queries"
  /\ mq_queries' = make_queries(mq_animals, mq_plush)
  /\ mq_i' = 1
  /\ mq_pc' = "loop"
  /\ UNCHANGED <<mq_animals, mq_plush, mq_total, mq_budget>>
  /\ OthersUnchanged("mq")

\* One round of "for animal, queries in queries.items()": the budget of
\* the animal's queries.  The division raises ZeroDivisionError when the
\* animal has no query, which ends get_images.
BudgetStep ==
  /\ mq_pc = "loop"
  /\ mq_i <= Len(mq_animals)
  /\ LET a == mq_animals[mq_i]
     IN  IF Len(mq_queries[a]) = 0
         THEN /\ mq_pc' = "ZeroDivisionError"
              /\ UNCHANGED <<mq_budget, mq_i>>
         ELSE /\ mq_budget' = Append(mq_budget, num_results(mq_total, mq_queries[a]))
              /\ mq_i' = mq_i + 1
              /\ mq_pc' = "loop"
  /\ UNCHANGED <<mq_animals, mq_plush, mq_total, mq_queries>>
  /\ OthersUnchanged("mq")

\* The loop is over
PlanDone ==
  /\ mq_pc = "loop"
  /\ mq_i > Len(mq_animals)
  /\ mq_pc' = "done"
  /\ UNCHANGED <<mq_animals, mq_plush, mq_total, mq_queries, mq_budget, mq_i>>
  /\ OthersUnchanged("mq")

NextPlan == MakeQueries \/ BudgetStep \/ PlanDone

SpecPlan == InitPlan /\ [][NextPlan]_vars

\* C10: for every category and every synonym list of k entries,
\* make_queries gives the category exactly 2k queries: for the i-th synonym
\* s, "C s" at place 2i-1 and "s C" at place 2i, two different strings; and
\* the per-query budget the search loop computes is floor(total / 2k), with
\* budget * 2k <= total.
C10_PlanQueries ==
  mq_pc \in {"loop", "done", "ZeroDivisionError"} =>
    LET k == Len(mq_plush)
    IN  /\ DOMAIN mq_queries = Range(mq_animals)
        /\ \A a \in Range(mq_animals) :
             /\ Len(mq_queries[a]) = 2 * k
             /\ \A i \in 1..k :
                  /\ mq_queries[a][2 * i - 1] = a \o mq_plush[i]
                  /\ mq_queries[a][2 * i] = mq_plush[i] \o a
                  /\ mq_queries[a][2 * i - 1] # mq_queries[a][2 * i]
        /\ \A j \in 1..Len(mq_budget) :
             /\ k > 0
             /\ mq_budget[j] * (2 * k) <= mq_total
             /\ (mq_budget[j] + 1) * (2 * k) > mq_total

C10_Witness ==
  /\ mq_pc = "done"
  /\ Len(mq_plush) = 2
  /\ mq_animals = <<<<"sea", "turtle">>, <<"cat">>>>
  /\ mq_total = 5
  /\ mq_budget = <<1, 1>>

---------------------------------------------------------------------------
(* BingImagesSpider._extract_image_urls                                    *)
(*                                                                         *)
(* A string is a sequence of tokens: a scheme prefix, plain text, "&", the *)
(* escapes \u0026 and \/.  A response is its text, as the values of the    *)
(* "murl":"..." occurrences in text order, and its DOM, as the data-m      *)
(* attributes of the a[data-m] elements and the img elements, in document  *)
(* order.                                                                  *)

Schemes == {"http://", "https://"}

\* str.startswith("http")
StartsWithHttp(str) == Len(str) > 0 /\ str[1] \in Schemes

\* str.replace(old, new) for one-token old and new
Replace(str, old, new) == [i \in 1..Len(str) |-> IF str[i] = old THEN new ELSE str[i]]

\* r'"murl"\s*:\s*"((?:https?://[^"]+?)(?:\\u0026|[&])[^"]*)"' matches the value
MatchesEscaped(value) ==
  /\ StartsWithHttp(value)
  /\ \E j \in 3..Len(value) : value[j] \in {"\\u0026", "&"}

\* r'"murl"\s*:\s*"(https?://[^"]+)"' matches the value
MatchesLoose(value) == StartsWithHttp(value) /\ Len(value) >= 2

\* if url not in seen: seen.add(url); urls.append(url)
AddUrl(state, url) ==
  IF url \in state.seen THEN state
  ELSE [seen |-> state.seen \cup {url}, urls |-> Append(state.urls, url)]

RECURSIVE EscapedLoop(_, _, _)
\* the first re.finditer loop (lines 85-89)
EscapedLoop(values, i, state) ==
  IF i > Len(values) THEN state
  ELSE IF MatchesEscaped(values[i])
       THEN LET url == Replace(values[i], "\\u0026", "&")
            IN  EscapedLoop(values, i + 1,
                  IF StartsWithHttp(url) THEN AddUrl(state, url) ELSE state)
       ELSE EscapedLoop(values, i + 1, state)

RECURSIVE LooseLoop(_, _, _)
\* the second re.finditer loop (lines 90-94)
LooseLoop(values, i, state) ==
  IF i > Len(values) THEN state
  ELSE IF MatchesLoose(values[i])
       THEN LooseLoop(values, i + 1, AddUrl(state, Replace(values[i], "\\/", "/")))
       ELSE LooseLoop(values, i + 1, state)

(* JSON values, as json.loads returns them *)
JNull == [t |-> "null"]

JStr(str) == [t |-> "str", v |-> str]

JNum(n) == [t |-> "num", v |-> n]

JList == [t |-> "list"]

\* a dict with the given keys
JObj(fields) == [t |-> "dict", fields |-> fields]

\* Python truthiness of a JSON value (a list here is non-empty)
Truthy(j) ==
  CASE j.t = "null" -> FALSE
    [] j.t = "str" -> j.v # <<>>
    [] j.t = "num" -> j.v # 0
    [] OTHER -> TRUE

\* dict.get(key)
Get(obj, key) == IF key \in DOMAIN obj.fields THEN obj.fields[key] ELSE JNull

\* a or b
Or(a, b) == IF Truthy(a) THEN a ELSE b

(* A data-m attribute is its text: empty, text that json.loads rejects, or
   text that json.loads (after html.unescape) decodes to the value "json". *)
AttrEmpty == [text |-> "empty"]

AttrInvalid == [text |-> "invalid"]

AttrJson(j) == [text |-> "json", json |-> j]

\* The body of the a[data-m] loop (lines 98-109) for one attribute: the new
\* state, or the exception that leaves the function.  json.loads raises
\* JSONDecodeError, which the except clause swallows; obj.get on a value
\* that is no dict raises AttributeError, which it does not catch.
AnchorBody(attr, state) ==
  IF attr.text = "empty" THEN [raised |-> "none", state |-> state]
  ELSE IF attr.text = "invalid" THEN [raised |-> "none", state |-> state]
  ELSE LET obj == attr.json
       IN  IF obj.t # "dict" THEN [raised |-> "AttributeError", state |-> state]
           ELSE LET murl == Or(Get(obj, "murl"), Get(obj, "m"))
                IN  IF murl.t = "str" /\ StartsWithHttp(murl.v)
                    THEN [raised |-> "none", state |-> AddUrl(state, murl.v)]
                    ELSE [raised |-> "none", state |-> state]

(* An attribute of an img element: absent, or a string *)
Absent == [some |-> FALSE]

Some(str) == [some |-> TRUE, v |-> str]

\* attrib.get(a) or attrib.get(b)
AttrOr(a, b) == IF a.some /\ a.v # <<>> THEN a ELSE b

\* if url and url.startswith("http") and url not in seen: ...
AddImg(state, url) ==
  IF url.some /\ url.v # <<>> /\ StartsWithHttp(url.v) THEN AddUrl(state, url.v) ELSE state

RECURSIVE MimgLoop(_, _, _)
\* for img in response.css("img.mimg") (lines 112-116)
MimgLoop(imgs, i, state) ==
  IF i > Len(imgs) THEN state
  ELSE IF imgs[i].mimg
       THEN MimgLoop(imgs, i + 1, AddImg(state, AttrOr(imgs[i].data_src, imgs[i].src)))
       ELSE MimgLoop(imgs, i + 1, state)

RECURSIVE DataSrcLoop(_, _, _)
\* for img in response.css("img[data-src]") (lines 117-121)
DataSrcLoop(imgs, i, state) ==
  IF i > Len(imgs) THEN state
  ELSE IF imgs[i].data_src.some
       THEN DataSrcLoop(imgs, i + 1, AddImg(state, imgs[i].data_src))
       ELSE DataSrcLoop(imgs, i + 1, state)

(* The responses the extraction is run on *)
UrlAB == <<"http://", "a", "&", "b">>

UrlM == <<"https://", "m">>

TextPool ==
  { <<>>,
    << <<"http://", "a", "\\u0026", "b">> >>,
    << <<"https://", "c", "\\/", "d">>, UrlAB >>,
    << <<"ftp://", "e">>, <<"https://", "c", "\\/", "d">> >> }

AttrPool ==
  { AttrEmpty,
    AttrInvalid,
    AttrJson(JObj([k \in {"murl"} |-> JStr(UrlAB)])),
    AttrJson(JObj([k \in {"m"} |-> JStr(UrlM)])),
    AttrJson(JObj([k \in {"murl", "m"} |-> IF k = "murl" THEN JNum(7) ELSE JStr(UrlM)])),
    AttrJson(JObj([k \in {"t"} |-> JStr(<<"title">>)])),
    AttrJson(JList),
    AttrJson(JNull) }

ImgPool ==
  { <<>>,
    << [mimg |-> TRUE, data_src |-> Some(<<"http://", "lazy">>), src |-> Some(<<"http://", "thumb">>)],
       [mimg |-> FALSE, data_src |-> Some(<<"https://", "other">>), src |-> Absent] >>,
    << [mimg |-> TRUE, data_src |-> Absent, src |-> Some(UrlAB)] >>,
    << [mimg |-> TRUE, data_src |-> Some(<<>>), src |-> Some(<<"/rel">>)],
       [mimg |-> FALSE, data_src |-> Some(UrlM), src |-> Absent] >> }

\* The most a[data-m] elements of a response
MaxAnchors == 2

AttrSeqs == UNION {[1..k -> AttrPool] : k \in 0..MaxAnchors}

InitExtract ==
  /\ ex_page \in [text : TextPool, anchors : AttrSeqs, imgs : ImgPool]
  /\ ex_urls = <<>>
  /\ ex_pc = "call"
  /\ OthersIdle("ex")

RECURSIVE AnchorLoop(_, _, _)
\* for sel in response.css("a[data-m]") (lines 97-109): the state after the
\* loop, or the exception that ended it
AnchorLoop(anchors, i, state) ==
  IF i > Len(anchors) THEN [raised |-> "none", state |-> state]
  ELSE LET r == AnchorBody(anchors[i], state)
       IN  IF r.raised = "none" THEN AnchorLoop(anchors, i + 1, r.state) ELSE r

\* _extract_image_urls(response): the list returned, or the exception raised
extract_image_urls(page) ==
  LET text == LooseLoop(page.text, 1,
                EscapedLoop(page.text, 1, [seen |-> {}, urls |-> <<>>]))
      anch == AnchorLoop(page.anchors, 1, text)
  IN  IF anch.raised # "none" THEN [raised |-> anch.raised, urls |-> <<>>]
      ELSE [raised |-> "none",
            urls |-> DataSrcLoop(page.imgs, 1, MimgLoop(page.imgs, 1, anch.state)).urls]

\* One call of _extract_image_urls
ExtractImageUrls ==
  /\ ex_pc = "call"
  /\ LET r == extract_image_urls(ex_page)
     IN  /\ ex_urls' = r.urls
         /\ ex_pc' = IF r.raised = "none" THEN "returned" ELSE r.raised
  /\ UNCHANGED ex_page
  /\ OthersUnchanged("ex")

NextExtract == ExtractImageUrls

SpecExtract == InitExtract /\ [][NextExtract]_vars

---------------------------------------------------------------------------
(* Claims about the extraction *)

\* s without the later copies of its entries
RECURSIVE Dedupe(_)
Dedupe(s) ==
  IF s = <<>> THEN <<>>
  ELSE LET front == Dedupe(SubSeq(s, 1, Len(s) - 1))
       IN  IF s[Len(s)] \in Range(front) THEN front ELSE Append(front, s[Len(s)])

\* An a[data-m] payload that carries a media URL: a JSON object whose
\* media-URL field is a string with a recognized scheme
WellFormed(attr) ==
  /\ attr.text = "json"
  /\ attr.json.t = "dict"
  /\ LET murl == Or(Get(attr.json, "murl"), Get(attr.json, "m"))
     IN  murl.t = "str" /\ StartsWithHttp(murl.v)

AnchorUrl(attr) == Or(Get(attr.json, "murl"), Get(attr.json, "m")).v

\* What the strategies yield, in their priority order, when every malformed
\* candidate is skipped
StrategyYields(page) ==
  LET HasImgUrl(a) == a.some /\ a.v # <<>> /\ StartsWithHttp(a.v)
      escaped == [i \in 1..Len(page.text) |->
                    IF MatchesEscaped(page.text[i])
                    THEN <<Replace(page.text[i], "\\u0026", "&")>> ELSE <<>>]
      loose == [i \in 1..Len(page.text) |->
                  IF MatchesLoose(page.text[i])
                  THEN <<Replace(page.text[i], "\\/", "/")>> ELSE <<>>]
      anchors == [i \in 1..Len(page.anchors) |->
                    IF WellFormed(page.anchors[i])
                    THEN <<AnchorUrl(page.anchors[i])>> ELSE <<>>]
      mimg == [i \in 1..Len(page.imgs) |->
                 LET img == page.imgs[i]
                 IN  IF img.mimg /\ HasImgUrl(AttrOr(img.data_src, img.src))
                     THEN <<AttrOr(img.data_src, img.src).v>> ELSE <<>>]
      lazy == [i \in 1..Len(page.imgs) |->
                 LET img == page.imgs[i]
                 IN  IF HasImgUrl(img.data_src) THEN <<img.data_src.v>> ELSE <<>>]
  IN  Flatten(escaped) \o Flatten(loose) \o Flatten(anchors)
        \o Flatten(mimg) \o Flatten(lazy)

ExpectedUrls(page) == Dedupe(StrategyYields(page))

\* C6: the extraction never raises on a malformed candidate: a payload
\* that fails JSON decoding, decodes to something other than an object,
\* lacks the media-URL field or holds a non-string there is skipped, and
\* the URLs of all other candidates and strategies are returned.
C6_MalformedSkipped ==
  /\ ex_pc \in {"call", "returned"}
  /\ ex_pc = "returned" => ex_urls = ExpectedUrls(ex_page)

\* What the code keeps of it: when the extraction returns, it returns the
\* URLs of the well-formed candidates
ExtractReturnsExpected ==
  ex_pc = "returned" => ex_urls = ExpectedUrls(ex_page)

\* The place of the first copy of u in s
FirstIndex(s, u) == CHOOSE i \in 1..Len(s) : s[i] = u /\ \A k \in 1..(i - 1) : s[k] # u

\* urls has no entry twice and is what the strategies yield, each URL at
\* the place of its first copy; it is empty when they yield nothing
DedupedFirstSeen(urls, yields) ==
  /\ \A i, j \in 1..Len(urls) : i # j => urls[i] # urls[j]
  /\ Range(urls) = Range(yields)
  /\ \A i, j \in 1..Len(urls) :
       i < j => FirstIndex(yields, urls[i]) < FirstIndex(yields, urls[j])
  /\ yields = <<>> => urls = <<>>

\* C15: for every page, the list returned by _extract_image_urls contains
\* no URL string twice, its order is first-seen order across the strategies
\* in their fixed priority order (escaped murl pattern, loose murl pattern,
\* a[data-m] payloads, img.mimg, img[data-src]), and it is the empty list
\* when no strategy yields a URL.
C15_DedupedFirstSeen ==
  ex_pc \notin {"idle", "call"} =>
    /\ ex_pc = "returned"
    /\ DedupedFirstSeen(ex_urls, StrategyYields(ex_page))

\* What holds of it: every list that is returned is so
ReturnedListDeduped ==
  ex_pc = "returned" => DedupedFirstSeen(ex_urls, StrategyYields(ex_page))

\* A list with a URL that two strategies yield has been returned
ReturnedListReached ==
  /\ ex_pc = "returned"
  /\ Len(ex_urls) >= 2
  /\ Len(StrategyYields(ex_page)) > Len(ex_urls)

---------------------------------------------------------------------------
(* AnimalImagesPipeline.get_media_requests                                 *)
(*                                                                         *)
(* A directory is the set of its entries; an entry has a name, the name's  *)
(* extension as written, and is a regular file or not.                     *)

\* str.lower() on an extension
Lower(ext) ==
  CASE ext = ".JPG" -> ".jpg"
    [] ext = ".PNG" -> ".png"
    [] ext = ".JPEG" -> ".jpeg"
    [] OTHER -> ext

\* os.path.isfile(f) and f.lower().endswith((".jpg", ".jpeg", ".png"))
IsAcceptedImage(entry) ==
  entry.isfile /\ Lower(entry.ext) \in {".jpg", ".jpeg", ".png"}

\* lines 44-50: the number of accepted image files, 0 without a directory
CurrentCount(dir) == Cardinality({e \in dir : IsAcceptedImage(e)})

\* A slip: the count is not clamped at 0
remaining_NoClamp(max_per_animal, current) == max_per_animal - current

\* remaining = max(0, max_per_animal - current)
remaining(max_per_animal, current) == Max(0, max_per_animal - current)

\* The Python slice s[:n]
SlicePrefix(s, n) ==
  IF n >= 0 THEN SubSeq(s, 1, Min(n, Len(s)))
  ELSE SubSeq(s, 1, Max(0, Len(s) + n))

\* The requests get_media_requests yields for an item's urls: urls[:remaining]
get_media_requests(urls, dir, max_per_animal) ==
  SlicePrefix(urls, remaining(max_per_animal, CurrentCount(dir)))

\* The entries a category directory is drawn from
EntryPool ==
  { [name |-> <<"a">>, ext |-> ".jpg", isfile |-> TRUE],
    [name |-> <<"b">>, ext |-> ".PNG", isfile |-> TRUE],
    [name |-> <<"c">>, ext |-> ".jpeg", isfile |-> TRUE],
    [name |-> <<"d">>, ext |-> ".gif", isfile |-> TRUE],
    [name |-> <<"e">>, ext |-> ".jpg", isfile |-> FALSE] }

\* The largest IMAGES_MAX_PER_ANIMAL and the longest image_urls of an item
MaxCap == 3

MaxUrls == 3

InitAdmit ==
  /\ ad_max \in 0..MaxCap
  /\ ad_dir \in SUBSET EntryPool
  /\ ad_urls \in {[i \in 1..k |-> <<"http://", i>>] : k \in 0..MaxUrls}
  /\ ad_requests = <<>>
  /\ ad_pc = "item"
  /\ OthersIdle("ad")

GetMediaRequests ==
  /\ ad_pc = "item"
  /\ ad_requests' = get_media_requests(ad_urls, ad_dir, ad_max)
  /\ ad_pc' = "yielded"
  /\ UNCHANGED <<ad_max, ad_dir, ad_urls>>
  /\ OthersUnchanged("ad")

NextAdmit == GetMediaRequests

SpecAdmit == InitAdmit /\ [][NextAdmit]_vars

\* C9: remaining = max(0, max_total - current) is 0 whenever current >=
\* max_total, and the admitted requests are exactly the first
\* min(remaining, len(candidates)) candidates in order, never more than
\* remaining.
C9_AdmitPrefix ==
  ad_pc = "yielded" =>
    LET current == Cardinality({e \in ad_dir :
                     e.isfile /\ e.ext \in {".jpg", ".JPG", ".jpeg", ".JPEG", ".png", ".PNG"}})
        room == IF current >= ad_max THEN 0 ELSE ad_max - current
    IN  /\ Len(ad_requests) = Min(room, Len(ad_urls))
        /\ Len(ad_requests) <= room
        /\ \A i \in 1..Len(ad_requests) : ad_requests[i] = ad_urls[i]
        /\ current >= ad_max => ad_requests = <<>>

C9_Witness ==
  /\ ad_pc = "yielded"
  /\ ad_max = 2
  /\ Len(ad_urls) = 3
  /\ Cardinality(ad_dir) = 3
  /\ Len(ad_requests) = 1

---------------------------------------------------------------------------
(* Worker-process crawl mode: run_bing_scraper.main, _run_crawl_worker,    *)
(* the spider's parse and the pipeline's admission and image store.        *)
(*                                                                         *)
(* multiprocessing.Pool.starmap hands every task to a worker process and   *)
(* returns, or re-raises a task's exception, once all tasks have ended.    *)
(* Scrapy parses the search pages of a worker in the order the responses   *)
(* arrive, calls get_media_requests as soon as parse yields the item, and  *)
(* downloads the admitted images asynchronously: an image is written some  *)
(* time after its item was dispatched.  A request whose fingerprint the    *)
(* worker's media pipeline has already seen is not downloaded again.  The  *)
(* stored name of an image is the SHA-1 of its URL with extension .jpg.    *)

\* The animals and synonym terms of the crawl runs
CrawlAnimals == <<<<"cat">>, <<"dog">>>>

CrawlPlush == <<<<"plush">>>>

RECURSIVE Slug(_)
\* animal.replace(" ", "_")
Slug(animal) ==
  IF Len(animal) <= 1 THEN animal
  ELSE <<animal[1], "_">> \o Slug(Tail(animal))

\* The stored name of the image of a URL
Sha1(url) == <<"sha1">> \o url

StoredImage(url) == [name |-> Sha1(url), ext |-> ".jpg", isfile |-> TRUE]

\* A URL of an image that downloads and decodes, and one that does not
Num == <<"1", "2", "3", "4", "5">>

Url(animal, j, i) == <<"http://", animal[1], Num[j], Num[i]>>

Url404(animal) == <<"http://", animal[1], "404">>

Valid(url) == url[Len(url)] # "404"

\* A search page that shows the given image URLs as img.mimg elements
ImgPage(urls) ==
  [text |-> <<>>, anchors |-> <<>>,
   imgs |-> [i \in 1..Len(urls) |->
               [mimg |-> TRUE, data_src |-> Some(urls[i]), src |-> Absent]]]

\* The search pages of a run, by (animal, query): five distinct images per
\* query; the same three images for every query of an animal; a broken
\* image, one good image and a page without images; a page whose data-m
\* payload is a JSON list
Profiles == {"five", "shared", "mixed", "badpage"}

\* The index of query q among the queries of its animal
QueryIndex(queries, animal, q) == CHOOSE j \in 1..Len(queries[animal]) : queries[animal][j] = q

PageOf(profile, animal, j) ==
  CASE profile = "five" -> ImgPage([i \in 1..5 |-> Url(animal, j, i)])
    [] profile = "shared" -> ImgPage([i \in 1..3 |-> Url(animal, 1, i)])
    [] profile = "mixed" ->
         IF j = 1 THEN ImgPage(<<Url404(animal), Url(animal, 1, 1)>>) ELSE ImgPage(<<>>)
    [] profile = "badpage" ->
         IF j = 1 THEN [text |-> <<>>, anchors |-> <<AttrJson(JList)>>,
                        imgs |-> ImgPage(<<Url(animal, 1, 1)>>).imgs]
         ELSE ImgPage(<<Url(animal, 2, 1), Url(animal, 2, 2)>>)

\* The largest --workers argument (the smallest is -1) and the largest
\* IMAGES_MAX_PER_ANIMAL of a crawl run
MaxWorkersArg == 2

MaxCrawlCap == 2

\* lines 142-145 and 154: the worker count
n_workers_of(arg, animals) == Min(Max(1, arg), Len(animals))

\* A slip: a task gets the first query of each of its animals only
build_tasks_FirstQuery(chunks, queries) ==
  LET task(i) ==
        [index |-> i - 1,
         pairs |-> [k \in 1..Len(chunks[i]) |-> <<chunks[i][k], queries[chunks[i][k]][1]>>]]
  IN  Flatten([i \in 1..Len(chunks) |-> IF chunks[i] = <<>> THEN <<>> ELSE <<task(i)>>])

\* lines 161-166: one task per non-empty chunk
build_tasks(chunks, queries) ==
  LET task(i) ==
        [index |-> i - 1,
         pairs |-> Flatten([k \in 1..Len(chunks[i]) |->
                     [m \in 1..Len(queries[chunks[i][k]]) |->
                        <<chunks[i][k], queries[chunks[i][k]][m]>>]])]
  IN  Flatten([i \in 1..Len(chunks) |-> IF chunks[i] = <<>> THEN <<>> ELSE <<task(i)>>])

CrawlQueries == make_queries(CrawlAnimals, CrawlPlush)

CrawlPairs == {<<a, CrawlQueries[a][j]>> : a \in Range(CrawlAnimals), j \in 1..(2 * Len(CrawlPlush))}

CrawlSlugs == {Slug(a) : a \in Range(CrawlAnimals)}

InitCrawl ==
  /\ cr_arg \in -1..MaxWorkersArg
  /\ cr_max \in 1..MaxCrawlCap
  /\ \E profile \in Profiles :
       cr_pages = [pr \in CrawlPairs |->
                     PageOf(profile, pr[1], QueryIndex(CrawlQueries, pr[1], pr[2]))]
  /\ cr_start \in {[d \in CrawlSlugs |-> {}],
                   [d \in CrawlSlugs |->
                      IF d = Slug(CrawlAnimals[1])
                      THEN {[name |-> <<"old">>, ext |-> ".PNG", isfile |-> TRUE]}
                      ELSE {}]}
  /\ cr_files = cr_start
  /\ cr_tasks = <<>>
  /\ cr_main = "start"
  /\ cr_status = <<>>
  /\ cr_pending = <<>>
  /\ cr_inflight = <<>>
  /\ cr_fp = <<>>
  /\ OthersIdle("cr")

\* main, lines 140-168: the worker count, the partition, the tasks, and the
\* pool that takes them
MainStart ==
  /\ cr_main = "start"
  /\ LET n == n_workers_of(cr_arg, CrawlAnimals)
         tasks == build_tasks(partition_list(CrawlAnimals, n), CrawlQueries)
     IN  /\ cr_tasks' = tasks
         /\ cr_status' = [w \in 1..Len(tasks) |-> "queued"]
         /\ cr_pending' = [w \in 1..Len(tasks) |-> {}]
         /\ cr_inflight' = [w \in 1..Len(tasks) |-> {}]
         /\ cr_fp' = [w \in 1..Len(tasks) |-> {}]
  /\ cr_main' = "pool"
  /\ UNCHANGED <<cr_arg, cr_max, cr_pages, cr_start, cr_files>>
  /\ OthersUnchanged("cr")

\* _run_crawl_worker up to process.start(): the spider's start_requests
\* schedules one search request per pair
WorkerStart(w) ==
  /\ cr_main = "pool"
  /\ cr_status[w] = "queued"
  /\ IF cr_tasks[w].pairs = <<>>
     THEN /\ cr_status' = [cr_status EXCEPT ![w] = "finished"]
          /\ UNCHANGED cr_pending
     ELSE /\ cr_status' = [cr_status EXCEPT ![w] = "running"]
          /\ cr_pending' = [cr_pending EXCEPT ![w] = Range(cr_tasks[w].pairs)]
  /\ UNCHANGED <<cr_arg, cr_max, cr_pages, cr_start, cr_tasks, cr_main,
                 cr_inflight, cr_fp, cr_files>>
  /\ OthersUnchanged("cr")

\* _run_crawl_worker raises before the crawl runs (os.chdir, the project
\* settings or the crawler set-up fails): the task ends with the exception
WorkerRaises(w) ==
  /\ cr_main = "pool"
  /\ cr_status[w] = "queued"
  /\ cr_status' = [cr_status EXCEPT ![w] = "failed"]
  /\ UNCHANGED <<cr_arg, cr_max, cr_pages, cr_start, cr_tasks, cr_main,
                 cr_pending, cr_inflight, cr_fp, cr_files>>
  /\ OthersUnchanged("cr")

\* A slip: the category's count is taken once, from the directory as the
\* run found it
ParseResponse_CountOnce(w, pair) ==
  /\ cr_status[w] = "running"
  /\ pair \in cr_pending[w]
  /\ LET r == extract_image_urls(cr_pages[pair])
         admitted == IF r.raised # "none" \/ r.urls = <<>> THEN <<>>
                     ELSE get_media_requests(r.urls, cr_start[Slug(pair[1])], cr_max)
         fresh == Range(admitted) \ cr_fp[w]
     IN  /\ cr_inflight' = [cr_inflight EXCEPT
                              ![w] = @ \cup {[animal |-> pair[1], url |-> u] : u \in fresh}]
         /\ cr_fp' = [cr_fp EXCEPT ![w] = @ \cup fresh]
  /\ cr_pending' = [cr_pending EXCEPT ![w] = @ \ {pair}]
  /\ UNCHANGED <<cr_arg, cr_max, cr_pages, cr_start, cr_tasks, cr_main,
                 cr_status, cr_files>>
  /\ OthersUnchanged("cr")

\* A search response arrives: parse extracts the URLs and, when there are
\* any, yields the item; get_media_requests counts the animal's directory
\* and yields a request for urls[:remaining]; the media pipeline starts the
\* download of those it has not seen.  An exception of the extraction is
\* logged by Scrapy and the response yields nothing.
ParseResponse(w, pair) ==
  /\ cr_status[w] = "running"
  /\ pair \in cr_pending[w]
  /\ LET r == extract_image_urls(cr_pages[pair])
         admitted == IF r.raised # "none" \/ r.urls = <<>> THEN <<>>
                     ELSE get_media_requests(r.urls, cr_files[Slug(pair[1])], cr_max)
         fresh == Range(admitted) \ cr_fp[w]
     IN  /\ cr_inflight' = [cr_inflight EXCEPT
                              ![w] = @ \cup {[animal |-> pair[1], url |-> u] : u \in fresh}]
         /\ cr_fp' = [cr_fp EXCEPT ![w] = @ \cup fresh]
  /\ cr_pending' = [cr_pending EXCEPT ![w] = @ \ {pair}]
  /\ UNCHANGED <<cr_arg, cr_max, cr_pages, cr_start, cr_tasks, cr_main,
                 cr_status, cr_files>>
  /\ OthersUnchanged("cr")

\* A slip: every image goes to the directory of the first category
file_path_Shared(req) ==
  [subfolder |-> Slug(CrawlAnimals[1]), image |-> StoredImage(req.url)]

\* AnimalImagesPipeline.file_path (lines 82-90): "{subfolder}/{name}", the
\* subfolder from the request's animal, the name from the URL's hash
file_path(req) ==
  [subfolder |-> Slug(req.animal), image |-> StoredImage(req.url)]

\* An image download ends well: the image is stored at
\* IMAGES_STORE/{subfolder}/{sha1}.jpg
ImageStored(w, req) ==
  /\ cr_status[w] = "running"
  /\ req \in cr_inflight[w]
  /\ Valid(req.url)
  /\ cr_files' = [cr_files EXCEPT ![file_path(req).subfolder] = @ \cup {file_path(req).image}]
  /\ cr_inflight' = [cr_inflight EXCEPT ![w] = @ \ {req}]
  /\ UNCHANGED <<cr_arg, cr_max, cr_pages, cr_start, cr_tasks, cr_main,
                 cr_status, cr_pending, cr_fp>>
  /\ OthersUnchanged("cr")

\* An image download fails or is no image: the pipeline logs and drops it
ImageDropped(w, req) ==
  /\ cr_status[w] = "running"
  /\ req \in cr_inflight[w]
  /\ ~Valid(req.url)
  /\ cr_inflight' = [cr_inflight EXCEPT ![w] = @ \ {req}]
  /\ UNCHANGED <<cr_arg, cr_max, cr_pages, cr_start, cr_tasks, cr_main,
                 cr_status, cr_pending, cr_fp, cr_files>>
  /\ OthersUnchanged("cr")

\* The spider is idle: process.start() returns and the task ends
WorkerFinish(w) ==
  /\ cr_status[w] = "running"
  /\ cr_pending[w] = {}
  /\ cr_inflight[w] = {}
  /\ cr_status' = [cr_status EXCEPT ![w] = "finished"]
  /\ UNCHANGED <<cr_arg, cr_max, cr_pages, cr_start, cr_tasks, cr_main,
                 cr_pending, cr_inflight, cr_fp, cr_files>>
  /\ OthersUnchanged("cr")

\* A slip: main does not wait for the tasks (map_async without get)
MainFinish_NoWait ==
  /\ cr_main = "pool"
  /\ cr_main' = "finished"
  /\ UNCHANGED <<cr_arg, cr_max, cr_pages, cr_start, cr_tasks,
                 cr_status, cr_pending, cr_inflight, cr_fp, cr_files>>
  /\ OthersUnchanged("cr")

\* starmap returns once every task has ended, and main prints
\* "All workers finished." (lines 168-171)
MainFinish ==
  /\ cr_main = "pool"
  /\ \A w \in 1..Len(cr_tasks) : cr_status[w] = "finished"
  /\ cr_main' = "finished"
  /\ UNCHANGED <<cr_arg, cr_max, cr_pages, cr_start, cr_tasks,
                 cr_status, cr_pending, cr_inflight, cr_fp, cr_files>>
  /\ OthersUnchanged("cr")

\* starmap re-raises a task's exception once every task has ended
MainRaises ==
  /\ cr_main = "pool"
  /\ \A w \in 1..Len(cr_tasks) : cr_status[w] \in {"finished", "failed"}
  /\ \E w \in 1..Len(cr_tasks) : cr_status[w] = "failed"
  /\ cr_main' = "raised"
  /\ UNCHANGED <<cr_arg, cr_max, cr_pages, cr_start, cr_tasks,
                 cr_status, cr_pending, cr_inflight, cr_fp, cr_files>>
  /\ OthersUnchanged("cr")

Workers == 1..Len(cr_tasks)

NextCrawl ==
  \/ MainStart
  \/ \E w \in Workers : WorkerStart(w)
  \/ \E w \in Workers : WorkerRaises(w)
  \/ \E w \in Workers : \E pair \in CrawlPairs : ParseResponse(w, pair)
  \/ \E w \in Workers : \E req \in cr_inflight[w] : ImageStored(w, req)
  \/ \E w \in Workers : \E req \in cr_inflight[w] : ImageDropped(w, req)
  \/ \E w \in Workers : WorkerFinish(w)
  \/ MainFinish
  \/ MainRaises

SpecCrawl == InitCrawl /\ [][NextCrawl]_vars

\* main is blocked in starmap on nothing but the tasks: once they have all
\* ended it goes on
SpecCrawlFair == SpecCrawl /\ WF_vars(MainFinish)

---------------------------------------------------------------------------
(* Claims about the crawl mode *)

\* C1: worker-process crawl mode, starting from category directories that
\* hold at most max_total accepted image files: in every reachable state
\* the number of image files of a category directory is at most
\* max_total + (worker_count - 1).
C1_BoundedOvershoot ==
  cr_main \in {"pool", "finished", "raised"} =>
    \A d \in CrawlSlugs :
      CurrentCount(cr_files[d]) <= cr_max + (Len(cr_tasks) - 1)

\* The pages of the end-to-end scenario: every query returns 5 valid images
\* with distinct URLs
FivePerQuery ==
  [pr \in CrawlPairs |-> PageOf("five", pr[1], QueryIndex(CrawlQueries, pr[1], pr[2]))]

\* C2: categories [cat, dog], synonyms [plush], cap 2 per category, empty
\* directories at the start, every query returning 5 valid images with
\* distinct URLs: after one run each category directory holds exactly 2
\* canonical-format files, 4 in total.
C2_EndToEnd ==
  ( /\ cr_main = "finished"
    /\ cr_max = 2
    /\ cr_pages = FivePerQuery
    /\ \A d \in CrawlSlugs : cr_start[d] = {} ) =>
    /\ \A d \in CrawlSlugs :
         /\ Cardinality(cr_files[d]) = 2
         /\ \A e \in cr_files[d] : e.isfile /\ e.ext = ".jpg"
    /\ CurrentCount(cr_files[Slug(CrawlAnimals[1])])
         + CurrentCount(cr_files[Slug(CrawlAnimals[2])]) = 4

\* The categories of worker w's task and their directories
TaskAnimals(w) == {cr_tasks[w].pairs[k][1] : k \in 1..Len(cr_tasks[w].pairs)}

OwnedDirs(w) == {Slug(a) : a \in TaskAnimals(w)}

C11_Disjoint ==
  \A w1, w2 \in 1..Len(cr_tasks) :
    w1 # w2 => /\ TaskAnimals(w1) \cap TaskAnimals(w2) = {}
               /\ OwnedDirs(w1) \cap OwnedDirs(w2) = {}

\* A step that changes a category directory is the end of a download of
\* one worker, and the directory is of that worker's categories only
C11_WriteOwn ==
  \A d \in CrawlSlugs :
    cr_files'[d] # cr_files[d] =>
      \E w \in 1..Len(cr_tasks) :
        /\ cr_inflight'[w] # cr_inflight[w]
        /\ cr_inflight'[w] \subseteq cr_inflight[w]
        /\ d \in OwnedDirs(w)
        /\ \A v \in 1..Len(cr_tasks) : v # w => d \notin OwnedDirs(v)

\* C11: worker-process crawl mode: the workers' category subsets are
\* pairwise disjoint, and in every interleaving no worker writes a file
\* into a directory of a category assigned to another worker.
C11_WorkersWriteOwnDirs == []C11_Disjoint /\ [][C11_WriteOwn]_vars

\* Two workers run at once and each has stored an image in its directory
C11_Witness ==
  /\ Len(cr_tasks) = 2
  /\ cr_status = <<"running", "running">>
  /\ \A w \in 1..2 : \A d \in OwnedDirs(w) : cr_files[d] \ cr_start[d] # {}

AllWorkersFinished ==
  /\ cr_main \in {"pool", "finished"}
  /\ \A w \in 1..Len(cr_tasks) : cr_status[w] = "finished"

\* C14: worker-process crawl mode: the orchestrator reports completion
\* ("All workers finished.") only after every spawned worker has finished
\* its crawl, and provided every worker finishes, the report eventually
\* happens.
C14_ReportAfterWorkers ==
  /\ [](cr_main = "finished" => AllWorkersFinished)
  /\ (AllWorkersFinished ~> cr_main = "finished")

\* The report after two workers' crawls, each of which stored an image
C14_Witness ==
  /\ cr_main = "finished"
  /\ Len(cr_tasks) = 2
  /\ \A w \in 1..2 : \A d \in OwnedDirs(w) : cr_files[d] \ cr_start[d] # {}

\* A step that dispatches the item of a pair whose category directory
\* holds max_total accepted image files or more starts no download
C17_FullAdmitsNone ==
  \A w \in DOMAIN cr_pending :
    \A pair \in cr_pending[w] :
      ( /\ pair \notin cr_pending'[w]
        /\ CurrentCount(cr_files[Slug(pair[1])]) >= cr_max ) =>
        /\ cr_inflight'[w] = cr_inflight[w]
        /\ cr_fp'[w] = cr_fp[w]

\* C17: the category's current count is recomputed from the directory at
\* every item dispatch: once a category directory holds at least max_total
\* accepted image files, every item dispatched afterwards for that
\* category admits zero URLs, whatever the length of its candidate list.
C17_RecountAtDispatch == [][C17_FullAdmitsNone]_vars

\* Cap 1, five fresh images per query: a worker has dispatched the items
\* of all its pairs, and each of its directories, empty at the start, holds
\* one image: the item dispatched after the first image was stored admitted
\* none of its five URLs
C17_Witness ==
  /\ cr_max = 1
  /\ cr_pages = FivePerQuery
  /\ \E w \in 1..Len(cr_tasks) :
       /\ cr_status[w] = "running"
       /\ cr_pending[w] = {}
       /\ cr_inflight[w] = {}
       /\ \A d \in OwnedDirs(w) : cr_start[d] = {} /\ Cardinality(cr_files[d]) = 1

\* C19: worker-process crawl mode: for every requested worker count n
\* (n <= 0 too) and a non-empty category list, main builds exactly
\* min(max(1, n), len(categories)) worker tasks, every task has a non-empty
\* pair list, every (category, query) pair of the plan is in exactly one
\* task, and all pairs of one category are in the same task.
C19_TasksCoverPlan ==
  cr_main \in {"pool", "finished", "raised"} =>
    LET atLeastOne == IF cr_arg < 1 THEN 1 ELSE cr_arg
        expected == IF atLeastOne < Len(CrawlAnimals) THEN atLeastOne ELSE Len(CrawlAnimals)
        places(pair) == {<<w, k>> \in (1..Len(cr_tasks)) \X (1..(2 * Len(CrawlAnimals) * Len(CrawlPlush))) :
                           k <= Len(cr_tasks[w].pairs) /\ cr_tasks[w].pairs[k] = pair}
    IN  /\ Len(cr_tasks) = expected
        /\ \A w \in 1..Len(cr_tasks) :
             /\ cr_tasks[w].pairs # <<>>
             /\ Range(cr_tasks[w].pairs) \subseteq CrawlPairs
        /\ \A pair \in CrawlPairs : Cardinality(places(pair)) = 1
        /\ \A a \in Range(CrawlAnimals) :
             Cardinality({w \in 1..Len(cr_tasks) : a \in TaskAnimals(w)}) = 1

\* A requested worker count below 1: one task with every pair of the plan
C19_Witness ==
  /\ cr_main = "pool"
  /\ cr_arg < 1
  /\ Len(cr_tasks) = 1
  /\ Range(cr_tasks[1].pairs) = CrawlPairs

---------------------------------------------------------------------------
(* Pooled-download mode: get_images.get_images, search_images,             *)
(* _download_worker, download_images and cleanup_folder.                   *)
(*                                                                         *)
(* A URL is the sequence of its "/"-separated segments; a segment is a     *)
(* stem and an extension.  The host decides what a GET of the URL gives.   *)
(* A folder is the set of its files; a file is its name (a segment) and    *)
(* the URL its content came from.                                          *)
(*                                                                         *)
(* ThreadPool.imap_unordered hands the tasks to the pool's threads and     *)
(* yields the results in the order the tasks end; the result of a task     *)
(* that raised is its exception, which the iteration re-raises in          *)
(* get_images.  Leaving the with block terminates the pool: tasks not yet  *)
(* started never start.                                                    *)

\* get_images.NUM_PROCESSES
NUM_PROCESSES == 8

Seg(name) == [stem |-> name, ext |-> ""]

File(stem, ext) == [stem |-> stem, ext |-> ext]

ImageUrl(host, dir, file) == <<Seg("http:"), Seg(""), Seg(host), Seg(dir), file>>

\* url.split("/")[-1]
Filename(url) == url[Len(url)]

\* requests.get(url, timeout=30); r.raise_for_status(); Image.open(r.content):
\* what the host answers
Fetch(url) ==
  CASE url[3].stem = "down" -> "RequestException"
    [] url[3].stem = "html" -> "UnidentifiedImageError"
    [] OTHER -> "image"

\* A result record of the search, with or without its "image" key
Rec(url) == [image |-> url, title |-> "t"]

NoImageRec == [title |-> "t"]

\* A slip: a transport failure leaves download_images
download_one_Abort(image, folder) ==
  IF "image" \notin DOMAIN image THEN [raised |-> "KeyError", folder |-> folder]
  ELSE LET url == image.image
           name == Filename(url)
       IN  IF Fetch(url) = "image"
           THEN [raised |-> "none",
                 folder |-> {f \in folder : f.name # name} \cup {[name |-> name, content |-> url]}]
           ELSE IF Fetch(url) = "RequestException"
                THEN [raised |-> "RequestException", folder |-> folder]
                ELSE [raised |-> "none", folder |-> folder]

\* One round of the loop of download_images (lines 96-111).  A failed GET
\* or decode is caught and logged.  A record without "image" raises
\* KeyError in the try block and again in the handler that logs
\* image["image"], so the KeyError leaves download_images.
download_one(image, folder) ==
  IF "image" \notin DOMAIN image THEN [raised |-> "KeyError", folder |-> folder]
  ELSE LET url == image.image
           name == Filename(url)
       IN  IF Fetch(url) = "image"
           THEN [raised |-> "none",
                 folder |-> {f \in folder : f.name # name} \cup {[name |-> name, content |-> url]}]
           ELSE [raised |-> "none", folder |-> folder]

\* A slip: the files of every image suffix are kept
cleanup_folder_KeepImages(folder) ==
  {f \in folder : f.name.ext \in {".jpg", ".JPG", ".jpeg", ".png"}}

\* cleanup_folder: unlink every file whose suffix is not ".jpg"
cleanup_folder(folder) == {f \in folder : f.name.ext = ".jpg"}

\* len(list(folder.glob("*.jpg")))
CountJpg(folder) == Cardinality({f \in folder : f.name.ext = ".jpg"})

\* What the provider answers to a query: it raises, or returns records
ProviderError == [error |-> TRUE, images |-> <<>>]

Answer(images) == [error |-> FALSE, images |-> images]

\* A slip: the provider error leaves search_images
search_images_Propagates(answer, max_results) ==
  IF answer.error THEN [raised |-> "DDGSException", images |-> <<>>]
  ELSE [raised |-> "none", images |-> SlicePrefix(answer.images, max_results)]

\* search_images (lines 157-171): the provider's answer, at most
\* max_results records, or [] when the provider raises DDGSException
search_images(answer, max_results) ==
  IF answer.error THEN [raised |-> "none", images |-> <<>>]
  ELSE [raised |-> "none", images |-> SlicePrefix(answer.images, max_results)]

\* The animals of a pooled run (the keys of make_queries(), in list order)
\* and the synonym terms
PoolAnimals == po_animals

PoolPlush == <<<<"plush">>>>

PoolQueries == make_queries(PoolAnimals, PoolPlush)

PoolSlugs == {Slug(a) : a \in Range(PoolAnimals)}

\* The answers of the pooled runs
Answers ==
  { ProviderError,
    Answer(<<>>),
    Answer(<< Rec(ImageUrl("img", "d1", File("a", ".jpg"))), Rec(ImageUrl("down", "d1", File("x", ".jpg"))) >>),
    Answer(<< Rec(ImageUrl("html", "d1", File("y", ".jpg"))), Rec(ImageUrl("img", "d1", File("b", ".png"))) >>),
    Answer(<< Rec(ImageUrl("img", "d2", File("a", ".jpg"))), Rec(ImageUrl("img", "d2", File("b", ".png"))) >>),
    Answer(<< NoImageRec, Rec(ImageUrl("img", "d1", File("c", ".jpg"))) >>) }

\* The values of MAX_RESULTS of the pooled runs
PoolMaxResults == {2, 4}

AllQueries == UNION {Range(PoolQueries[a]) : a \in Range(PoolAnimals)}

\* What images/<animal> holds when a pooled run starts: mkdir(exist_ok=True)
\* keeps a folder left by an earlier run, here the first animal's
PoolStartFolder(a) ==
  IF a = PoolAnimals[1]
  THEN {[name |-> File("old", ".png"), content |-> <<>>],
        [name |-> File("up", ".JPG"), content |-> <<>>],
        [name |-> File("keep", ".jpg"), content |-> <<>>]}
  ELSE {}

\* The pooled runs: two animals with every assignment of the answers to
\* their queries; and one animal more than the pool has threads, every
\* query answered by a record without its "image" key
TwoAnimals == <<<<"cat">>, <<"dog">>>>

ManyAnimals == SubSeq(ANIMALS_LIST, 1, NUM_PROCESSES + 1)

PoolAnimalLists == {TwoAnimals, ManyAnimals}

PoolSearches ==
  IF PoolAnimals = TwoAnimals THEN [AllQueries -> Answers]
  ELSE {[q \in AllQueries |-> Answer(<<NoImageRec>>)]}

\* The animals whose folder cannot be made (its path is a regular file)
PoolBlocked ==
  IF PoolAnimals = TwoAnimals THEN {{}, {PoolAnimals[2]}} ELSE {{}}

InitPool ==
  /\ po_animals \in PoolAnimalLists
  /\ po_blocked \in PoolBlocked
  /\ po_max \in PoolMaxResults
  /\ po_search \in PoolSearches
  /\ po_main = "search"
  /\ po_ai = 1
  /\ po_qi = 1
  /\ po_images = [a \in {} |-> <<>>]
  /\ po_task = [a \in Range(PoolAnimals) |-> [pc |-> "none", i |-> 0, images |-> <<>>]]
  /\ po_attempts = [a \in Range(PoolAnimals) |-> <<>>]
  /\ po_files = [d \in PoolSlugs |->
                   UNION {PoolStartFolder(a) : a \in {b \in Range(PoolAnimals) : Slug(b) = d}}]
  /\ po_results = <<>>
  /\ po_count = 0
  /\ OthersIdle("po")

\* One round of the inner search loop (lines 182-187): at the animal's
\* first query images_by_animal[animal] = [] and the budget is computed;
\* the query's records are appended
SearchStep ==
  /\ po_main = "search"
  /\ po_ai <= Len(PoolAnimals)
  /\ LET a == PoolAnimals[po_ai]
         qs == PoolQueries[a]
     IN  IF Len(qs) = 0
         THEN /\ po_main' = "ZeroDivisionError"
              /\ UNCHANGED <<po_images, po_ai, po_qi>>
         ELSE LET r == search_images(po_search[qs[po_qi]], num_results(po_max, qs))
                  before == IF po_qi = 1 THEN <<>> ELSE po_images[a]
              IN  IF r.raised # "none"
                  THEN /\ po_main' = r.raised
                       /\ UNCHANGED <<po_images, po_ai, po_qi>>
                  ELSE /\ po_images' = [x \in DOMAIN po_images \cup {a} |->
                                          IF x = a THEN before \o r.images ELSE po_images[x]]
                       /\ IF po_qi < Len(qs)
                          THEN po_qi' = po_qi + 1 /\ po_ai' = po_ai
                          ELSE po_qi' = 1 /\ po_ai' = po_ai + 1
                       /\ po_main' = "search"
  /\ UNCHANGED <<po_animals, po_blocked, po_max, po_search, po_task, po_attempts, po_files, po_results, po_count>>
  /\ OthersUnchanged("po")

\* lines 190-193: the pool takes one task per animal
PoolOpen ==
  /\ po_main = "search"
  /\ po_ai > Len(PoolAnimals)
  /\ po_task' = [a \in Range(PoolAnimals) |-> [pc |-> "queued", i |-> 0, images |-> po_images[a]]]
  /\ po_main' = "pool"
  /\ UNCHANGED <<po_animals, po_blocked, po_max, po_search, po_ai, po_qi, po_images, po_attempts, po_files,
                 po_results, po_count>>
  /\ OthersUnchanged("po")

Running == {a \in Range(PoolAnimals) : po_task[a].pc \in {"download", "count"}}

\* A slip: a task starts whether or not a thread of the pool is free
TaskStart_NoLimit(a) ==
  /\ po_main = "pool"
  /\ po_task[a].pc = "queued"
  /\ a \notin po_blocked
  /\ po_task' = [po_task EXCEPT ![a].pc = "download", ![a].i = 1]
  /\ UNCHANGED <<po_animals, po_blocked, po_max, po_search, po_main, po_ai, po_qi,
                 po_images, po_attempts, po_files, po_results, po_count>>
  /\ OthersUnchanged("po")

\* A pool thread takes the task: _download_worker makes the folder
\* (lines 125-127)
TaskStart(a) ==
  /\ po_main = "pool"
  /\ po_task[a].pc = "queued"
  /\ Cardinality(Running) < NUM_PROCESSES
  /\ a \notin po_blocked
  /\ po_task' = [po_task EXCEPT ![a].pc = "download", ![a].i = 1]
  /\ UNCHANGED <<po_animals, po_blocked, po_max, po_search, po_main, po_ai, po_qi, po_images, po_attempts,
                 po_files, po_results, po_count>>
  /\ OthersUnchanged("po")

\* folder.mkdir raises (the path is a regular file): the task ends with
\* the exception
TaskMkdirRaises(a) ==
  /\ po_main = "pool"
  /\ po_task[a].pc = "queued"
  /\ Cardinality(Running) < NUM_PROCESSES
  /\ a \in po_blocked
  /\ po_task' = [po_task EXCEPT ![a].pc = "raised"]
  /\ UNCHANGED <<po_animals, po_blocked, po_max, po_search, po_main, po_ai, po_qi, po_images, po_attempts,
                 po_files, po_results, po_count>>
  /\ OthersUnchanged("po")

\* One round of the loop of download_images
DownloadStep(a) ==
  /\ po_task[a].pc = "download"
  /\ po_task[a].i <= Len(po_task[a].images)
  /\ LET r == download_one(po_task[a].images[po_task[a].i], po_files[Slug(a)])
     IN  /\ po_files' = [po_files EXCEPT ![Slug(a)] = r.folder]
         /\ po_task' = IF r.raised = "none"
                       THEN [po_task EXCEPT ![a].i = @ + 1]
                       ELSE [po_task EXCEPT ![a].pc = "raised"]
  /\ po_attempts' = [po_attempts EXCEPT ![a] = Append(@, po_task[a].i)]
  /\ UNCHANGED <<po_animals, po_blocked, po_max, po_search, po_main, po_ai, po_qi, po_images, po_results, po_count>>
  /\ OthersUnchanged("po")

\* download_images returns; cleanup_folder (line 129)
CleanupStep(a) ==
  /\ po_task[a].pc = "download"
  /\ po_task[a].i > Len(po_task[a].images)
  /\ po_files' = [po_files EXCEPT ![Slug(a)] = cleanup_folder(@)]
  /\ po_task' = [po_task EXCEPT ![a].pc = "count"]
  /\ UNCHANGED <<po_animals, po_blocked, po_max, po_search, po_main, po_ai, po_qi, po_images, po_attempts,
                 po_results, po_count>>
  /\ OthersUnchanged("po")

\* lines 130-132: the task counts the folder and returns; its result is the
\* next one imap_unordered yields
CountStep(a) ==
  /\ po_task[a].pc = "count"
  /\ po_task' = [po_task EXCEPT ![a].pc = "returned"]
  /\ po_results' = Append(po_results, [animal |-> a, length |-> CountJpg(po_files[Slug(a)])])
  /\ UNCHANGED <<po_animals, po_blocked, po_max, po_search, po_main, po_ai, po_qi, po_images, po_attempts,
                 po_files, po_count>>
  /\ OthersUnchanged("po")

\* list(p.imap_unordered(...)) re-raises the exception of a task: get_images
\* ends without its summary and the pool is terminated
PoolRaises ==
  /\ po_main = "pool"
  /\ \E a \in Range(PoolAnimals) : po_task[a].pc = "raised"
  /\ po_main' = "raised"
  /\ UNCHANGED <<po_animals, po_blocked, po_max, po_search, po_ai, po_qi, po_images, po_task, po_attempts,
                 po_files, po_results, po_count>>
  /\ OthersUnchanged("po")

RECURSIVE SumLengths(_)
\* count += result["length"] over the results
SumLengths(results) ==
  IF results = <<>> THEN 0 ELSE results[1].length + SumLengths(Tail(results))

\* A slip: the summary takes the k-th result to be the k-th animal's
Summary_InOrder ==
  /\ po_main = "pool"
  /\ \A a \in Range(PoolAnimals) : po_task[a].pc = "returned"
  /\ po_count' = SumLengths([k \in 1..Len(po_results) |->
                     IF po_results[k].animal = PoolAnimals[k]
                     THEN po_results[k] ELSE [animal |-> PoolAnimals[k], length |-> 0]])
  /\ po_main' = "done"
  /\ UNCHANGED <<po_animals, po_blocked, po_max, po_search, po_ai, po_qi, po_images,
                 po_task, po_attempts, po_files, po_results>>
  /\ OthersUnchanged("po")

\* lines 195-199: every task has returned; the summary
Summary ==
  /\ po_main = "pool"
  /\ \A a \in Range(PoolAnimals) : po_task[a].pc = "returned"
  /\ po_count' = SumLengths(po_results)
  /\ po_main' = "done"
  /\ UNCHANGED <<po_animals, po_blocked, po_max, po_search, po_ai, po_qi, po_images, po_task, po_attempts,
                 po_files, po_results>>
  /\ OthersUnchanged("po")

NextPool ==
  \/ SearchStep
  \/ PoolOpen
  \/ \E a \in Range(PoolAnimals) : TaskStart(a)
  \/ \E a \in Range(PoolAnimals) : TaskMkdirRaises(a)
  \/ \E a \in Range(PoolAnimals) : DownloadStep(a)
  \/ \E a \in Range(PoolAnimals) : CleanupStep(a)
  \/ \E a \in Range(PoolAnimals) : CountStep(a)
  \/ PoolRaises
  \/ Summary

SpecPool == InitPool /\ [][NextPool]_vars

---------------------------------------------------------------------------
(* Claims about the pooled mode *)

\* The batch of animal a has no record without its "image" key: every
\* failure of its downloads is a transport or a decode failure
OnlyFetchFailures(a) ==
  \A k \in 1..Len(po_task[a].images) : "image" \in DOMAIN po_task[a].images[k]

\* C5: in download_images a transport failure or a decode failure of one
\* item never aborts the batch: every item of the batch is attempted
\* exactly once, in list order, and none is retried.
C5_BatchNeverAborted ==
  \A a \in Range(PoolAnimals) :
    (po_task[a].pc \in {"download", "count", "returned", "raised"} /\ OnlyFetchFailures(a)) =>
      /\ po_task[a].pc = "raised" => po_task[a].i = 0
      /\ po_task[a].pc = "download" =>
           po_attempts[a] = [k \in 1..(po_task[a].i - 1) |-> k]
      /\ po_task[a].pc \in {"count", "returned"} =>
           po_attempts[a] = [k \in 1..Len(po_task[a].images) |-> k]

C5_Witness ==
  \E a \in Range(PoolAnimals) :
    /\ po_task[a].pc = "returned"
    /\ Len(po_task[a].images) = 4
    /\ Fetch(po_task[a].images[1].image) = "UnidentifiedImageError"
    /\ Fetch(po_task[a].images[4].image) = "RequestException"
    /\ po_attempts[a] = <<1, 2, 3, 4>>

\* The run in which every query that raised a provider error simply
\* returned nothing: its answers, the records it accumulates for an animal
\* over the animal's first k queries, and the count its pool task reports
QuietSearch == [q \in AllQueries |-> IF po_search[q].error THEN Answer(<<>>) ELSE po_search[q]]

QuietImages(a, k) ==
  Flatten([j \in 1..k |->
    SlicePrefix(QuietSearch[PoolQueries[a][j]].images, po_max \div Len(PoolQueries[a]))])

RECURSIVE QuietFolder(_, _, _)
QuietFolder(images, k, folder) ==
  IF k > Len(images) THEN folder
  ELSE QuietFolder(images, k + 1, download_one(images[k], folder).folder)

QuietCount(a, start) ==
  CountJpg(cleanup_folder(QuietFolder(QuietImages(a, Len(PoolQueries[a])), 1, start)))

\* C4: when the search raises a provider error for a query, the query
\* contributes no result, the run is not ended by the error and completes
\* with its summary, and the records accumulated and the counts reported
\* are those of the run in which that query returned nothing.
C4_ProviderErrorIsNoResults ==
  /\ po_main \in {"search", "pool", "done", "raised"}
  /\ po_main = "raised" => \E a \in Range(PoolAnimals) : po_task[a].pc = "raised"
  /\ \A j \in 1..Len(PoolAnimals) :
       LET a == PoolAnimals[j]
       IN  /\ (po_main = "search" /\ j < po_ai) \/ po_main # "search" =>
                po_images[a] = QuietImages(a, Len(PoolQueries[a]))
           /\ (po_main = "search" /\ j = po_ai /\ po_qi > 1) =>
                po_images[a] = QuietImages(a, po_qi - 1)
           /\ po_main # "search" => po_task[a].images = po_images[a]
  /\ po_main = "done" =>
       /\ {r.animal : r \in Range(po_results)} = Range(PoolAnimals)
       /\ Len(po_results) = Len(PoolAnimals)
       /\ \A r \in Range(po_results) : r.length = QuietCount(r.animal, PoolStartFolder(r.animal))
       /\ po_count = SumLengths([j \in 1..Len(PoolAnimals) |->
                        [length |-> QuietCount(PoolAnimals[j], PoolStartFolder(PoolAnimals[j]))]])
  /\ (~ENABLED NextPool) => po_main \in {"done", "raised"}

C4_Witness ==
  /\ po_main = "done"
  /\ po_search[PoolQueries[PoolAnimals[1]][1]].error
  /\ po_search[PoolQueries[PoolAnimals[1]][2]].images # <<>>
  /\ po_images[PoolAnimals[1]] # <<>>
  /\ po_count = 3

\* The pooled half of C3: once nothing more happens, the summary has been
\* reported and holds the count of every category whose task did not raise
C3_Pooled ==
  (po_main # "idle" /\ ~ENABLED NextPool) =>
    /\ po_main = "done"
    /\ \A a \in Range(PoolAnimals) :
         po_task[a].pc # "raised" =>
           /\ po_task[a].pc = "returned"
           /\ \E k \in 1..Len(po_results) : po_results[k].animal = a

\* The crawl half of C3: once nothing more happens, every worker that did
\* not fail has finished its crawl
C3_Crawl ==
  (cr_main # "idle" /\ ~ENABLED NextCrawl) =>
    \A w \in 1..Len(cr_tasks) : cr_status[w] \in {"finished", "failed"}

\* C3: a failure in one category or worker never aborts the others, in
\* either mode: when a category's pool task raises, every other category's
\* task still downloads, cleans up and counts and its count is in the
\* summary; when a crawl worker fails, every other worker still runs its
\* crawl to completion.
C3_FailureIsolated == C3_Pooled /\ C3_Crawl

\* At most NUM_PROCESSES tasks run; the tasks are one per category, each
\* with the category's batch; two tasks that run at once have different
\* directories
C12_Exclusive ==
  /\ Cardinality(Running) <= NUM_PROCESSES
  /\ po_main \in {"pool", "done", "raised"} =>
       /\ DOMAIN po_task = Range(PoolAnimals)
       /\ \A a \in Range(PoolAnimals) : po_task[a].images = po_images[a]
  /\ \A a, b \in Running : a # b => Slug(a) # Slug(b)

\* A task is taken once, and a step that changes a category directory is a
\* step of the one running task of that category
C12_OwnDir ==
  /\ \A a \in DOMAIN po_task :
       po_task[a].pc \in {"download", "count", "returned", "raised"} =>
         po_task'[a].pc \in {"download", "count", "returned", "raised"}
  /\ \A d \in DOMAIN po_files :
       po_files'[d] # po_files[d] =>
         \E a \in Running : /\ Slug(a) = d
                            /\ po_task'[a] # po_task[a]
                            /\ \A b \in Running : b # a => Slug(b) # d

\* C12: pooled-download mode: at every moment at most NUM_PROCESSES (8)
\* pool tasks are running, each category's batch is handled by exactly one
\* pool task, and no two pool tasks that run concurrently write to, delete
\* from, or count the same category directory.
C12_PoolTasksExclusive == []C12_Exclusive /\ [][C12_OwnDir]_vars

\* Every thread of the pool runs a task and a further task waits
C12_Witness ==
  /\ Cardinality(Running) = NUM_PROCESSES
  /\ \E a \in Range(PoolAnimals) : po_task[a].pc = "queued"

\* Entries i < j of the batch of animal a have different source URLs and
\* the same derived filename, and both fetches succeed
Collide(a, i, j) ==
  LET images == po_task[a].images
  IN  /\ i < j
      /\ "image" \in DOMAIN images[i] /\ "image" \in DOMAIN images[j]
      /\ images[i].image # images[j].image
      /\ Filename(images[i].image) = Filename(images[j].image)
      /\ Fetch(images[i].image) = "image" /\ Fetch(images[j].image) = "image"

\* The last entry of the batch that is fetched well under the given name
LastWritten(images, name) ==
  LET ks == {k \in 1..Len(images) :
               /\ "image" \in DOMAIN images[k]
               /\ Filename(images[k].image) = name
               /\ Fetch(images[k].image) = "image"}
  IN  images[CHOOSE k \in ks : \A m \in ks : m <= k].image

\* When the task of animal a has returned, the directory holds one file
\* under the colliding name, from the later entry, and the reported count
\* is the number of files of the directory, that file among them
OneFileForPair(a, i) ==
  LET images == po_task[a].images
      name == Filename(images[i].image)
      files == {f \in po_files[Slug(a)] : f.name = name}
  IN  /\ Cardinality(files) = 1
      /\ \A f \in files : f.content = LastWritten(images, name)
      /\ \E k \in 1..Len(po_results) :
           /\ po_results[k].animal = a
           /\ po_results[k].length = Cardinality(po_files[Slug(a)])

\* C13: for a download batch of one category with two entries of different
\* source URLs whose derived filenames collide, both fetched well, the
\* category directory ends with exactly one file for the pair, holding the
\* content of the later-written entry, and the count counts it once.
C13_CollisionLastWins ==
  \A a \in Range(PoolAnimals) :
    po_task[a].pc = "returned" =>
      \A i, j \in 1..Len(po_task[a].images) : Collide(a, i, j) => OneFileForPair(a, i)

\* The same for the colliding names that end in ".jpg": this holds
CollisionLastWinsJpg ==
  \A a \in Range(PoolAnimals) :
    po_task[a].pc = "returned" =>
      \A i, j \in 1..Len(po_task[a].images) :
        (Collide(a, i, j) /\ Filename(po_task[a].images[i].image).ext = ".jpg")
          => OneFileForPair(a, i)

\* A task has returned whose batch has a colliding pair named ".jpg"
CollisionJpgReached ==
  \E a \in Range(PoolAnimals) :
    /\ po_task[a].pc = "returned"
    /\ \E i, j \in 1..Len(po_task[a].images) :
         Collide(a, i, j) /\ Filename(po_task[a].images[i].image).ext = ".jpg"

\* The count the task of animal a reported
ReportedLength(a) == (CHOOSE r \in Range(po_results) : r.animal = a).length

RECURSIVE TotalReported(_)
TotalReported(animals) ==
  IF animals = <<>> THEN 0 ELSE ReportedLength(animals[1]) + TotalReported(Tail(animals))

\* A task that counts has attempted its whole batch and cleaned its
\* directory; a task that has returned reported the number of .jpg files
\* of its directory; the total is the sum of the categories' counts
C16_CountAfterCleanup ==
  /\ \A a \in Range(PoolAnimals) :
       po_task[a].pc \in {"count", "returned"} =>
         /\ Len(po_attempts[a]) = Len(po_task[a].images)
         /\ po_files[Slug(a)] = cleanup_folder(po_files[Slug(a)])
  /\ \A a \in Range(PoolAnimals) :
       po_task[a].pc = "returned" =>
         /\ Cardinality({k \in 1..Len(po_results) : po_results[k].animal = a}) = 1
         /\ ReportedLength(a) = CountJpg(po_files[Slug(a)])
  /\ po_main = "done" => po_count = TotalReported(PoolAnimals)

\* The steps of a task follow one another in the order download, cleanup,
\* count, and the count put in the results is the number of .jpg files of
\* the directory at that step
C16_StepOrder ==
  /\ \A a \in DOMAIN po_task :
       po_task'[a].pc # po_task[a].pc =>
         <<po_task[a].pc, po_task'[a].pc>> \in
           { <<"none", "queued">>, <<"queued", "download">>, <<"queued", "raised">>,
             <<"download", "raised">>, <<"download", "count">>, <<"count", "returned">> }
  /\ \A a \in DOMAIN po_task :
       (po_task[a].pc = "download" /\ po_task'[a].pc = "count") =>
         /\ po_task[a].i > Len(po_task[a].images)
         /\ po_files'[Slug(a)] = cleanup_folder(po_files[Slug(a)])
  /\ Len(po_results') > Len(po_results) =>
       LET r == po_results'[Len(po_results')]
       IN  /\ po_task[r.animal].pc = "count"
           /\ r.length = CountJpg(po_files[Slug(r.animal)])
           /\ po_results' = Append(po_results, r)

\* C16: pooled-download mode: every pool task downloads the category's
\* full batch, then removes the non-canonical files, then counts; the count
\* it reports is the number of .jpg files in the category directory at
\* that moment, and the grand total reported is the sum of the
\* per-category counts whatever the order in which the tasks finish.
C16_DownloadCleanupCount == []C16_CountAfterCleanup /\ [][C16_StepOrder]_vars

\* The summary of a run whose second category finished first, with
\* different counts
C16_Witness ==
  /\ po_main = "done"
  /\ Len(po_results) = 2
  /\ po_results[1].animal = PoolAnimals[2]
  /\ po_results[1].length # po_results[2].length
  /\ po_results[1].length > 0
  /\ po_count = po_results[1].length + po_results[2].length

\* The names of the batch of animal a that do not end in ".jpg" and whose
\* image is fetched and decoded
OtherSuffixFetched(a) ==
  {Filename(po_task[a].images[k].image) :
     k \in {m \in 1..Len(po_task[a].images) :
              /\ "image" \in DOMAIN po_task[a].images[m]
              /\ Fetch(po_task[a].images[m].image) = "image"
              /\ Filename(po_task[a].images[m].image).ext # ".jpg"}}

\* When the task has returned its directory has files of the suffix ".jpg"
\* only, none under a fetched name of another suffix, and the reported
\* count is the number of the files left
C18_OnlyJpgLeft ==
  \A a \in Range(PoolAnimals) :
    po_task[a].pc = "returned" =>
      /\ \A f \in po_files[Slug(a)] : f.name.ext = ".jpg"
      /\ \A f \in po_files[Slug(a)] : f.name \notin OtherSuffixFetched(a)
      /\ ReportedLength(a) = Cardinality(po_files[Slug(a)])

\* The cleanup step is the one that deletes them: they are in the
\* directory before it and not after it
C18_CleanupDeletes ==
  \A a \in DOMAIN po_task :
    (po_task[a].pc = "download" /\ po_task'[a].pc = "count") =>
      \A name \in OtherSuffixFetched(a) :
        /\ \E f \in po_files[Slug(a)] : f.name = name
        /\ \A f \in po_files'[Slug(a)] : f.name # name

===========================================================================
